---- MODULE Spec2Model ----
(***************************************************************************)
(* Model of src/lib.rs of bc-totorobot: a Rocket service with two routes,  *)
(* GET /health_check and POST /post_mailchimp_stats.  The stats handler is *)
(* a straight-line pipeline; every blocking call and every point at which  *)
(* it can panic is a position of pc.  The environment is process-global    *)
(* and fixed at start.  A panic unwinds the request only (Rust's default   *)
(* panic strategy): no response is produced and the service keeps serving. *)
(***************************************************************************)
EXTENDS Integers, Sequences, FiniteSets, TLC

VARIABLES env, pc, logs, r_list, content, resp, response, panic, events, health

vars == <<env, pc, logs, r_list, content, resp, response, panic, events, health>>

\* ---------------------------------------------------------------- bounds
\* Present statistics take the values 1234.7 * k, k in 1..MaxStat (in tenths).
MaxStat == 1

\* ----------------------------------------------------------- environment
None == "None"
NotPresent == [tag |-> "NotPresent", value |-> ""]
NotUnicode == [tag |-> "NotUnicode", value |-> ""]

\* std::env::var: Err(NotPresent) when unset, Err(NotUnicode) when the value
\* is not valid Unicode, Ok(value) otherwise.  A set variable is VarOk(v).
VarOk(v) == [tag |-> "Ok", value |-> v]

ConfigValues == {NotPresent, NotUnicode, VarOk("set")}

FlagValues == {NotPresent, NotUnicode, VarOk(""), VarOk("0"), VarOk("false"), VarOk("1")}

Environments ==
    [TOTORO_MAILCHIMP_APIKEY : ConfigValues,
     TOTORO_MAILCHIMP_LIST_ID : ConfigValues,
     TOTORO_BASECAMP_BOTURL : ConfigValues,
     TOTORO_PRODUCTION : FlagValues]

\* Result::is_ok of env::var(name)
is_ok(v) == v.tag = "Ok"

\* The variable exists in the process environment, whatever its bytes.
IsPresent(v) == v.tag # "NotPresent"

\* ------------------------------------------------------------- ListStats
Fields ==
    <<"member_count", "member_count_since_send", "unsubscribe_count_since_send",
      "avg_sub_rate", "avg_unsub_rate", "click_rate">>

FieldSet == {Fields[i] : i \in DOMAIN Fields}

StatValues == {12347 * k : k \in 1..MaxStat}

\* Option<f64>: {} is None, {x} is Some(x)
Some(x) == {x}

Unwrap(opt) == CHOOSE x \in opt : TRUE

ListStats == [FieldSet -> {{}} \cup {Some(v) : v \in StatValues}]

\* format!("{:.0}", x) for x >= 0 given in tenths: nearest integer, ties to even.
Fmt0(tenths) ==
    LET q == tenths \div 10
        r == tenths % 10
    IN  IF r < 5 THEN q
        ELSE IF r > 5 THEN q + 1
        ELSE IF q % 2 = 0 THEN q ELSE q + 1

Header == "<strong>Mailchimp Stats (Rust)</strong><ul>"

Li(label, value, suffix) == [label |-> label, text |-> Fmt0(value), suffix |-> suffix]

\* if let Some(x) = field { content.push_str(&format!(...)) }
PushIfSome(c, opt, label, suffix) ==
    IF opt = {} THEN c ELSE Append(c, Li(label, Unwrap(opt), suffix))

FormatStats_swapped(stats) ==
    LET c0 == <<Header>>
        c1 == PushIfSome(c0, stats["member_count"], "Active subscribers", "")
        c2 == PushIfSome(c1, stats["unsubscribe_count_since_send"], "Unsubscribes since last send", "")
        c3 == PushIfSome(c2, stats["member_count_since_send"], "Subscribes since last send", "")
        c4 == PushIfSome(c3, stats["avg_sub_rate"], "Subscribe rate", "/m")
        c5 == PushIfSome(c4, stats["avg_unsub_rate"], "Unsubscribe rate", "/m")
    IN  PushIfSome(c5, stats["click_rate"], "Click rate", "%")

FormatStats(stats) ==
    LET c0 == <<Header>>
        c1 == PushIfSome(c0, stats["member_count"], "Active subscribers", "")
        c2 == PushIfSome(c1, stats["member_count_since_send"], "Subscribes since last send", "")
        c3 == PushIfSome(c2, stats["unsubscribe_count_since_send"], "Unsubscribes since last send", "")
        c4 == PushIfSome(c3, stats["avg_sub_rate"], "Subscribe rate", "/m")
        c5 == PushIfSome(c4, stats["avg_unsub_rate"], "Unsubscribe rate", "/m")
    IN  PushIfSome(c5, stats["click_rate"], "Click rate", "%")

\* ------------------------------------------------------------- responses
\* AzureResponse::to_json
to_json(l, rv) == [Logs |-> l, ReturnValue |-> rv]

ApiResponse(json, status) == [json |-> json, status |-> status]

NoResponse == [json |-> to_json(<<>>, None), status |-> 0]

NoHealth == [status |-> 0, body |-> None, during |-> None]

\* Outcomes of lists.get_list_info: an error value, a list without the stats
\* sub-object, or a list with stats.
ProviderErrors == {"transport", "api"}

ProviderResults ==
    {[ok |-> FALSE, err |-> e, stats |-> {}] : e \in ProviderErrors}
    \cup {[ok |-> TRUE, err |-> None, stats |-> {}]}
    \cup {[ok |-> TRUE, err |-> None, stats |-> Some(s)] : s \in ListStats}

\* Outcomes of client.post(..).send(): Err (no HTTP response) or a status.
WebhookStatuses == {100, 199, 200, 204, 299, 300, 301, 404, 500}

SendOk(status) == [ok |-> TRUE, status |-> status]

TransportError == [ok |-> FALSE, status |-> 0]

SendResults == {SendOk(st) : st \in WebhookStatuses} \cup {TransportError}

NoResult == [ok |-> FALSE, err |-> None, stats |-> {}]

\* reqwest StatusCode::is_success
is_success_lax(status) == status < 400

is_success(status) == 200 <= status /\ status <= 299

MailchimpError(e) == <<"Error getting Mailchimp list info: ", e>>

BasecampError(status) == <<"Error posting to Basecamp: ", status>>

ProviderErrorResponse_ok(l, e) ==
    ApiResponse(to_json(Append(l, MailchimpError(e)), "error"), 200)

ProviderErrorResponse(l, e) ==
    ApiResponse(to_json(Append(l, MailchimpError(e)), "error"), 500)

WebhookResponse(l, status) ==
    IF is_success(status)
    THEN ApiResponse(to_json(l, "ok"), 200)
    ELSE ApiResponse(to_json(Append(l, BasecampError(status)), "error"), 500)

DevelopmentResponse(l) == ApiResponse(to_json(l, "ok"), 200)

HealthBody_lower == "ok"

HealthBody == "OK"

\* ----------------------------------------------------------------- state
Init ==
    /\ env \in Environments
    /\ pc = "idle"
    /\ logs = <<>>
    /\ r_list = NoResult
    /\ content = <<>>
    /\ resp = TransportError
    /\ response = NoResponse
    /\ panic = None
    /\ events = <<>>
    /\ health = NoHealth

Finished == {"idle", "done", "panicked"}

Panic(msg) ==
    /\ pc' = "panicked"
    /\ panic' = msg

\* GET /health_check
health_check ==
    /\ health' = [status |-> 200, body |-> HealthBody, during |-> pc]
    /\ UNCHANGED <<env, pc, logs, r_list, content, resp, response, panic, events>>

\* A POST /post_mailchimp_stats request arrives; let mut logs = Vec::new()
BeginStats ==
    /\ pc \in Finished
    /\ pc' = "api_key"
    /\ logs' = <<>>
    /\ r_list' = NoResult
    /\ content' = <<>>
    /\ resp' = TransportError
    /\ response' = NoResponse
    /\ panic' = None
    /\ events' = <<>>
    /\ UNCHANGED <<env, health>>

ReadApiKey_late ==
    /\ pc = "api_key"
    /\ IF is_ok(env.TOTORO_MAILCHIMP_APIKEY)
       THEN /\ pc' = "list_id"
            /\ UNCHANGED <<panic, events>>
       ELSE /\ Panic("TOTORO_MAILCHIMP_APIKEY not set")
            /\ events' = Append(events, "provider_start")
    /\ UNCHANGED <<env, logs, r_list, content, resp, response, health>>

ReadApiKey ==
    /\ pc = "api_key"
    /\ IF is_ok(env.TOTORO_MAILCHIMP_APIKEY)
       THEN /\ pc' = "list_id"
            /\ UNCHANGED panic
       ELSE Panic("TOTORO_MAILCHIMP_APIKEY not set")
    /\ UNCHANGED <<env, logs, r_list, content, resp, response, events, health>>

ReadListId ==
    /\ pc = "list_id"
    /\ IF is_ok(env.TOTORO_MAILCHIMP_LIST_ID)
       THEN /\ pc' = "get_list_info"
            /\ UNCHANGED panic
       ELSE Panic("TOTORO_MAILCHIMP_LIST_ID not set")
    /\ UNCHANGED <<env, logs, r_list, content, resp, response, events, health>>

\* lists.get_list_info(..) is called: the provider request goes out
CallGetListInfo ==
    /\ pc = "get_list_info"
    /\ events' = Append(events, "provider_start")
    /\ pc' = "provider_wait"
    /\ UNCHANGED <<env, logs, r_list, content, resp, response, panic, health>>

\* ... and returns
GetListInfoReturns ==
    /\ pc = "provider_wait"
    /\ \E r \in ProviderResults : r_list' = r
    /\ events' = Append(events, "provider_done")
    /\ pc' = "match"
    /\ UNCHANGED <<env, logs, content, resp, response, panic, health>>

Respond(r) ==
    /\ response' = r
    /\ logs' = r.json.Logs
    /\ events' = Append(events, "response")
    /\ pc' = "done"

\* match r_list: the Err arm answers, the Ok arm extracts the stats and
\* builds the summary
MatchList ==
    /\ pc = "match"
    /\ IF ~r_list.ok
       THEN /\ Respond(ProviderErrorResponse(logs, r_list.err))
            /\ UNCHANGED <<content, panic>>
       ELSE IF r_list.stats = {}
       THEN /\ Panic("No stats returned")
            /\ UNCHANGED <<logs, content, response, events>>
       ELSE /\ content' = FormatStats(Unwrap(r_list.stats))
            /\ pc' = "production"
            /\ UNCHANGED <<logs, response, panic, events>>
    /\ UNCHANGED <<env, r_list, resp, health>>

\* if env::var("TOTORO_PRODUCTION").is_ok() { .. } else { .. }
InProduction_always(e) == TRUE

InProduction(e) == is_ok(e.TOTORO_PRODUCTION)

CheckProduction ==
    /\ pc = "production"
    /\ IF InProduction(env)
       THEN /\ pc' = "bot_url"
            /\ UNCHANGED <<logs, response, events>>
       ELSE /\ Respond(DevelopmentResponse(logs))
    /\ UNCHANGED <<env, r_list, content, resp, panic, health>>

ReadBotUrl ==
    /\ pc = "bot_url"
    /\ IF is_ok(env.TOTORO_BASECAMP_BOTURL)
       THEN /\ pc' = "send"
            /\ UNCHANGED panic
       ELSE Panic("TOTORO_BASECAMP_BOTURL not set")
    /\ UNCHANGED <<env, logs, r_list, content, resp, response, events, health>>

\* client.post(url).json(body).send() is called: the webhook POST goes out
SendStart_async ==
    /\ pc = "send"
    /\ response' = DevelopmentResponse(logs)
    /\ events' = events \o <<"webhook_start", "response">>
    /\ pc' = "done"
    /\ UNCHANGED <<env, logs, r_list, content, resp, panic, health>>

SendStart ==
    /\ pc = "send"
    /\ events' = Append(events, "webhook_start")
    /\ pc' = "send_wait"
    /\ UNCHANGED <<env, logs, r_list, content, resp, response, panic, health>>

\* ... and returns: .expect("Reqwest client error") on a transport failure
SendReturns ==
    /\ pc = "send_wait"
    /\ \E o \in SendResults :
         /\ resp' = o
         /\ IF ~o.ok
            THEN /\ Panic("Reqwest client error")
                 /\ events' = Append(events, "webhook_failed")
            ELSE /\ pc' = "status"
                 /\ events' = Append(events, "webhook_done")
                 /\ UNCHANGED panic
    /\ UNCHANGED <<env, logs, r_list, content, response, health>>

\* if resp.status().is_success() { ok } else { error }
CheckStatus ==
    /\ pc = "status"
    /\ Respond(WebhookResponse(logs, resp.status))
    /\ UNCHANGED <<env, r_list, content, resp, panic, health>>

Next ==
    \/ health_check
    \/ BeginStats
    \/ ReadApiKey
    \/ ReadListId
    \/ CallGetListInfo
    \/ GetListInfoReturns
    \/ MatchList
    \/ CheckProduction
    \/ ReadBotUrl
    \/ SendStart
    \/ SendReturns
    \/ CheckStatus

Spec == Init /\ [][Next]_vars

\* ------------------------------------------------------------ properties
Count(ev) == Cardinality({i \in DOMAIN events : events[i] = ev})

ProviderCalls == Count("provider_start")

WebhookPosts == Count("webhook_start")

Returned(ev) == \E i \in DOMAIN events : events[i] = ev

Ended == pc \in {"done", "panicked"}

IsOkEnvelope(r) ==
    r.status = 200 /\ r.json.ReturnValue = "ok" /\ r.json.Logs = <<>>

IsErrorEnvelope(r) ==
    r.status = 500 /\ r.json.ReturnValue = "error" /\ Len(r.json.Logs) = 1

ProviderFailed == Returned("provider_done") /\ ~r_list.ok

ProviderGaveStats == Returned("provider_done") /\ r_list.ok /\ r_list.stats # {}

\* C1: whenever get_list_info returned an error, no webhook POST is ever
\* issued in that invocation and the handler does not panic; once it has
\* answered, the answer is status 500, ReturnValue "error" and exactly one
\* log entry, the one describing the provider failure.
C1_ProviderErrorGives500 ==
    ProviderFailed =>
        /\ WebhookPosts = 0
        /\ pc \in {"match", "done"}
        /\ pc = "done" =>
             /\ IsErrorEnvelope(response)
             /\ response.json.Logs[1] = MailchimpError(r_list.err)

C1_Witness ==
    /\ pc = "done"
    /\ ProviderFailed
    /\ is_ok(env.TOTORO_PRODUCTION)
    /\ response.status = 500

\* C2: with TOTORO_PRODUCTION unset and a provider result carrying stats, no
\* webhook POST is issued and the handler answers 200, "ok", empty Logs,
\* whether or not the webhook URL is set.
C2_DevelopmentNoPost ==
    (~IsPresent(env.TOTORO_PRODUCTION) /\ ProviderGaveStats) =>
        /\ WebhookPosts = 0
        /\ pc \in {"match", "production", "done"}
        /\ pc = "done" => IsOkEnvelope(response)

C2_Witness ==
    /\ pc = "done"
    /\ ~IsPresent(env.TOTORO_PRODUCTION)
    /\ ProviderGaveStats
    /\ ~is_ok(env.TOTORO_BASECAMP_BOTURL)
    /\ response.status = 200

\* C3: once the handler has answered after the webhook POST returned an HTTP
\* status, a status outside 200..299 gives 500, "error" and exactly one log
\* entry naming the Basecamp failure; a status inside gives 200, "ok" and
\* empty Logs.
C3_WebhookStatusDecides ==
    (pc = "done" /\ Returned("webhook_done")) =>
        IF resp.status \in 200..299
        THEN IsOkEnvelope(response)
        ELSE /\ IsErrorEnvelope(response)
             /\ response.json.Logs[1] = BasecampError(resp.status)

C3_Witness ==
    /\ pc = "done"
    /\ Returned("webhook_done")
    /\ is_ok(env.TOTORO_PRODUCTION)
    /\ resp.status = 301
    /\ response.status = 500

\* C4 (as claimed): when send() fails at the transport level the handler
\* ends with an "error" envelope, one log line and status 500.
C4_TransportFailureGives500 ==
    (Ended /\ Returned("webhook_failed")) =>
        (pc = "done" /\ IsErrorEnvelope(response))

\* C5 (as claimed): every invocation ends with 200 and an "ok" envelope or
\* with 500 and an "error" envelope carrying exactly one log line.
C5_AlwaysAnEnvelope ==
    Ended =>
        /\ pc = "done"
        /\ \/ (response.status = 200 /\ response.json.ReturnValue = "ok")
           \/ IsErrorEnvelope(response)

\* C6: the webhook POST starts only after the provider call has returned,
\* and the response is the last event of an invocation: every webhook POST
\* issued has returned before it, and none starts after it.
C6_StrictOrder ==
    \A i \in DOMAIN events :
        /\ events[i] = "webhook_start" =>
             \E j \in 1..(i - 1) : events[j] = "provider_done"
        /\ events[i] = "provider_done" =>
             \E j \in 1..(i - 1) : events[j] = "provider_start"
        /\ events[i] = "response" =>
             /\ i = Len(events)
             /\ \E j \in 1..(i - 1) : events[j] = "provider_done"
             /\ \A k \in DOMAIN events : events[k] = "webhook_start" =>
                  \E m \in (k + 1)..(i - 1) : events[m] = "webhook_done"

C6_Witness ==
    /\ pc = "done"
    /\ events = <<"provider_start", "provider_done", "webhook_start",
                  "webhook_done", "response">>

\* C7: health_check can always be served and every answer it has given is
\* status 200 with body "OK", also while a stats invocation is in progress
\* or after one has failed or panicked.
C7_HealthAlwaysOk ==
    /\ ENABLED health_check
    /\ health # NoHealth => (health.status = 200 /\ health.body = "OK")

C7_Witness ==
    /\ health.during = "panicked"
    /\ health.status = 200
    /\ pc = "panicked"
    /\ panic = "TOTORO_MAILCHIMP_APIKEY not set"

Labels ==
    <<"Active subscribers", "Subscribes since last send",
      "Unsubscribes since last send", "Subscribe rate", "Unsubscribe rate",
      "Click rate">>

PresentFields(stats) ==
    SelectSeq(<<1, 2, 3, 4, 5, 6>>, LAMBDA i : stats[Fields[i]] # {})

Summarised == ProviderGaveStats /\ pc # "match"

\* C8: the summary is the header followed by exactly one <li> per present
\* field, none for an absent field, in the order active subscribers,
\* subscribes since last send, unsubscribes since last send, subscribe rate,
\* unsubscribe rate, click rate.
C8_OneEntryPerPresentField ==
    Summarised =>
        LET present == PresentFields(Unwrap(r_list.stats))
        IN  /\ content[1] = Header
            /\ Len(content) = 1 + Len(present)
            /\ \A k \in DOMAIN present :
                 content[k + 1].label = Labels[present[k]]

C8_Witness ==
    /\ Summarised
    /\ LET st == Unwrap(r_list.stats)
       IN  /\ st["member_count"] = {}
           /\ st["member_count_since_send"] # {}
           /\ st["unsubscribe_count_since_send"] # {}
           /\ st["avg_sub_rate"] = {}
           /\ st["avg_unsub_rate"] = {}
           /\ st["click_rate"] # {}
    /\ Len(content) = 4

ConfigPanics ==
    {"TOTORO_MAILCHIMP_APIKEY not set", "TOTORO_MAILCHIMP_LIST_ID not set",
     "TOTORO_BASECAMP_BOTURL not set"}

\* C9 (as claimed): an invocation that fails on a missing configuration
\* value has issued no outbound call, neither to the provider nor to the
\* webhook.
C9_ConfigFailsBeforeAnyCall ==
    (pc = "panicked" /\ panic \in ConfigPanics) => events = <<>>

\* C9 (amended): a missing API key or list ID fails the invocation before
\* any outbound call; a missing webhook URL (production flag set) fails it
\* after the provider call has returned and before any webhook POST.
C9_ConfigFailsBeforeItsCall ==
    /\ (~is_ok(env.TOTORO_MAILCHIMP_APIKEY) \/ ~is_ok(env.TOTORO_MAILCHIMP_LIST_ID)) =>
         (events = <<>> /\ pc \in {"idle", "api_key", "list_id", "panicked"})
    /\ (pc = "panicked" /\ panic \in ConfigPanics) =>
         IF panic = "TOTORO_BASECAMP_BOTURL not set"
         THEN events = <<"provider_start", "provider_done">>
         ELSE events = <<>>
    /\ ~is_ok(env.TOTORO_BASECAMP_BOTURL) => WebhookPosts = 0

C9_Witness ==
    /\ pc = "panicked"
    /\ panic = "TOTORO_BASECAMP_BOTURL not set"
    /\ is_ok(env.TOTORO_PRODUCTION)
    /\ ProviderCalls = 1
    /\ WebhookPosts = 0

\* C10 (as claimed): with stats returned and the webhook URL set, a webhook
\* POST is issued exactly when TOTORO_PRODUCTION is present in the
\* environment, whatever its value; at most one POST and one provider call
\* are issued per invocation.
C10_PresenceBasedFlag ==
    /\ WebhookPosts <= 1
    /\ ProviderCalls <= 1
    /\ (Ended /\ ProviderGaveStats /\ is_ok(env.TOTORO_BASECAMP_BOTURL)) =>
         (WebhookPosts = 1 <=> IsPresent(env.TOTORO_PRODUCTION))

====
